---- MODULE Spec2Model ----
(***************************************************************************)
(* lighter-analysis: the HTTP client facade (lighter_api.py) and the       *)
(* timestamp normalizer (process.py).                                      *)
(*                                                                         *)
(* The program keeps no state between calls.  A state of the model is the  *)
(* observation of the last call: which function ran, with which arguments, *)
(* what the transport answered, which requests went out and how the call   *)
(* ended (a returned value or a raised exception).                         *)
(***************************************************************************)
EXTENDS Integers, Sequences, FiniteSets, TLC

VARIABLES
    fn,         \* name of the last facade function called ("none" at start)
    args,       \* its positional arguments, a tuple of Python values
    wire,       \* what the transport answers to a request of that call
    requests,   \* the GET requests issued during the call, in order
    ret,        \* how the call ended: Return(v) or Raise(exc)
    df,         \* the caller's DataFrame (convert_timestamp_column works in place)
    df_in,      \* the DataFrame as it was when convert_timestamp_column was entered
    column,     \* the column argument of the last convert_timestamp_column call
    unit,       \* the unit argument of that call
    out         \* how that call ended: "none", Return(frame) or Raise(exc)

apiVars  == <<fn, args, wire, requests, ret>>
normVars == <<df, df_in, column, unit, out>>
vars     == <<fn, args, wire, requests, ret, df, df_in, column, unit, out>>

(***************************************************************************)
(* Bounds of the model.                                                    *)
(***************************************************************************)
MaxStrLen == 2      \* longest string argument drawn for l1_address / value
MaxTs     == 2      \* integer timestamps are drawn from 0..MaxTs
MaxRows   == 2      \* most rows of a DataFrame

(***************************************************************************)
(* Python values.  Each type has its own payload field, so values of       *)
(* different types are always unequal.  A str is a sequence of characters. *)
(***************************************************************************)
PyNone     == [t |-> "NoneType"]
PyStr(s)   == [t |-> "str", s |-> s]
PyInt(n)   == [t |-> "int", n |-> n]
PyBool(b)  == [t |-> "bool", b |-> b]
PyFloat(n) == [t |-> "float", f |-> n]      \* the float n.0
PyList(l)  == [t |-> "list", l |-> l]
PyDict(d)  == [t |-> "dict", d |-> d]

\* isinstance(v, str)
IsStr(v) == v.t = "str"

\* isinstance(v, (str, int)); bool is a subclass of int
IsStrOrInt(v) == v.t \in {"str", "int", "bool"}

\* bool(v)
Truthy(v) ==
    CASE v.t = "NoneType" -> FALSE
      [] v.t = "str"      -> Len(v.s) > 0
      [] v.t = "int"      -> v.n # 0
      [] v.t = "bool"     -> v.b
      [] v.t = "float"    -> v.f # 0
      [] v.t = "list"     -> Len(v.l) > 0
      [] v.t = "dict"     -> DOMAIN v.d # {}

\* the characters str.strip() removes
Whitespace == {" ", "\t", "\n"}

RECURSIVE LStrip(_)
LStrip(s) ==
    IF s # <<>> /\ Head(s) \in Whitespace THEN LStrip(Tail(s)) ELSE s

RECURSIVE RStrip(_)
RStrip(s) ==
    IF s # <<>> /\ s[Len(s)] \in Whitespace
    THEN RStrip(SubSeq(s, 1, Len(s) - 1))
    ELSE s

\* str.strip()
Strip(s) == RStrip(LStrip(s))

\* ord(c), for the characters the model's strings are made of
Ord(c) ==
    CASE c = "\t" -> 9
      [] c = "\n" -> 10
      [] c = " "  -> 32
      [] c = "0"  -> 48
      [] c = "1"  -> 49
      [] c = "2"  -> 50
      [] c = "3"  -> 51
      [] c = "4"  -> 52
      [] c = "5"  -> 53
      [] c = "9"  -> 57
      [] c = "D"  -> 68
      [] c = "d"  -> 100
      [] c = "h"  -> 104
      [] c = "m"  -> 109
      [] c = "w"  -> 119
      [] c = "x"  -> 120

\* str >= str: lexicographic by code point
RECURSIVE StrGE(_, _)
StrGE(a, b) ==
    IF b = <<>> THEN TRUE
    ELSE IF a = <<>> THEN FALSE
    ELSE IF Ord(Head(a)) # Ord(Head(b)) THEN Ord(Head(a)) > Ord(Head(b))
    ELSE StrGE(Tail(a), Tail(b))

\* the number an int or a bool compares as
AsInt(v) == IF v.t = "bool" THEN (IF v.b THEN 1 ELSE 0) ELSE v.n

\* a >= b for values that passed isinstance(_, (str, int)):
\* "TypeError" when one is a str and the other an int
PyGE(a, b) ==
    IF IsStr(a) /\ IsStr(b) THEN (IF StrGE(a.s, b.s) THEN "True" ELSE "False")
    ELSE IF ~IsStr(a) /\ ~IsStr(b)
         THEN (IF AsInt(a) >= AsInt(b) THEN "True" ELSE "False")
    ELSE "TypeError"

(***************************************************************************)
(* How a call ends.                                                        *)
(***************************************************************************)
Return(v) == [k |-> "return", v |-> v]
Raise(e)  == [k |-> "raise", exc |-> e]

\* what a function did: the requests it issued and how it ended
Did(reqs, res) == [requests |-> reqs, res |-> res]

(***************************************************************************)
(* Configuration (lighter_api.py lines 12-14, environment defaults).       *)
(***************************************************************************)
BASE_URL        == [origin |-> "https://mainnet.zklighter.elliot.ai", path |-> ""]
DEFAULT_TIMEOUT == 10
DEFAULT_HEADERS == [accept |-> "application/json"]
HEALTH_TIMEOUT  == 5

\* urllib.parse.urljoin(base, ref) for the references the program uses: the
\* empty reference keeps the base, an absolute path replaces the base's path
Urljoin(base, ref) ==
    IF ref = "" THEN base ELSE [origin |-> base.origin, path |-> ref]

(***************************************************************************)
(* The transport: requests.get either raises or yields a response with a   *)
(* status code and a body that response.json() can or cannot parse.        *)
(***************************************************************************)
NoBody       == [ok |-> FALSE, val |-> PyNone]
JsonBody(v)  == [ok |-> TRUE, val |-> v]

Raises(e)      == [exc |-> e, status |-> 0, body |-> NoBody]
Response(s, b) == [exc |-> "none", status |-> s, body |-> b]

\* exceptions requests.get raises
TransportExceptions ==
    {"ReadTimeout", "ConnectTimeout", "ConnectionError", "TooManyRedirects"}

\* final status codes of a response (requests follows a redirect that names a
\* Location; 300 Multiple Choices is a 3xx it hands back as it is)
Statuses == {200, 201, 300, 404, 503}

\* values response.json() yields: an object, an array, scalars
JsonValues ==
    { PyDict([code |-> PyInt(200)]),
      PyList(<<PyInt(1), PyStr(<<"x">>)>>),
      PyInt(5),
      PyNone }

Bodies == {NoBody} \cup {JsonBody(v) : v \in JsonValues}

Outcomes ==
    {Raises(e) : e \in TransportExceptions}
        \cup {Response(s, b) : s \in Statuses, b \in Bodies}

\* the classes an exception class derives from, itself included
Ancestors(e) ==
    CASE e = "ReadTimeout"      -> {"ReadTimeout", "Timeout", "RequestException"}
      [] e = "ConnectTimeout"   -> {"ConnectTimeout", "ConnectionError", "Timeout",
                                    "RequestException"}
      [] e = "ConnectionError"  -> {"ConnectionError", "RequestException"}
      [] e = "TooManyRedirects" -> {"TooManyRedirects", "RequestException"}
      [] e = "HTTPError"        -> {"HTTPError", "RequestException"}
      [] e = "JSONDecodeError"  -> {"JSONDecodeError", "InvalidJSONError",
                                    "RequestException", "ValueError"}
      [] OTHER                  -> {e}

\* a raise_for_status that lets client errors through
RaiseForStatus_server_errors_only(status) == status >= 500 /\ status < 600

\* response.raise_for_status(): HTTPError for a 4xx or 5xx status
RaiseForStatus(status) == status >= 400 /\ status < 600

\* a try block that parses the body and forgets to return it
TryRequest_drops_body(outcome) ==
    IF outcome.exc # "none" THEN Raise(outcome.exc)
    ELSE IF RaiseForStatus(outcome.status) THEN Raise("HTTPError")
    ELSE IF ~outcome.body.ok THEN Raise("JSONDecodeError")
    ELSE Return(PyNone)

\* the body of the try block of _make_request
TryRequest(outcome) ==
    IF outcome.exc # "none" THEN Raise(outcome.exc)
    ELSE IF RaiseForStatus(outcome.status) THEN Raise("HTTPError")
    ELSE IF ~outcome.body.ok THEN Raise("JSONDecodeError")
    ELSE Return(outcome.body.val)

\* the except clauses of _make_request, in order; each raises APIError
ExceptClauses ==
    <<"Timeout", "ConnectionError", "HTTPError", "RequestException", "ValueError">>

Handled(e) == \E i \in 1..Len(ExceptClauses) : ExceptClauses[i] \in Ancestors(e)

Request(url, params, timeout) ==
    [method |-> "GET", url |-> url, params |-> params,
     headers |-> DEFAULT_HEADERS, timeout |-> timeout]

\* a _make_request that sends the request again after a failure
MakeRequest_retries(url, params, timeout, outcome) ==
    LET r == TryRequest(outcome)
    IN  IF r.k = "raise" /\ Handled(r.exc)
        THEN Did(<<Request(url, params, timeout), Request(url, params, timeout)>>,
                 Raise("APIError"))
        ELSE Did(<<Request(url, params, timeout)>>, r)

\* _make_request(url, params, timeout) against a transport answering outcome
MakeRequest(url, params, timeout, outcome) ==
    LET r == TryRequest(outcome)
    IN  Did(<<Request(url, params, timeout)>>,
            IF r.k = "raise" /\ Handled(r.exc) THEN Raise("APIError") ELSE r)

\* try: ... except APIError: return None
CatchAPIError(d) ==
    IF d.res.k = "raise" /\ d.res.exc = "APIError"
    THEN Did(d.requests, Return(PyNone))
    ELSE d

\* a health_check that reports success whatever the request did
health_check_always_true(outcome) ==
    LET d == MakeRequest(Urljoin(BASE_URL, ""), PyNone, HEALTH_TIMEOUT, outcome)
    IN  Did(d.requests, Return(PyBool(TRUE)))

\* health_check()
health_check(outcome) ==
    LET d == MakeRequest(Urljoin(BASE_URL, ""), PyNone, HEALTH_TIMEOUT, outcome)
    IN  IF d.res.k = "raise"
        THEN (IF d.res.exc = "APIError"
              THEN Did(d.requests, Return(PyBool(FALSE)))
              ELSE d)
        ELSE Did(d.requests, Return(PyBool(TRUE)))

(***************************************************************************)
(* The accessor functions.  The last parameter is the transport's answer.  *)
(***************************************************************************)
S_index      == <<"i", "n", "d", "e", "x">>
S_l1_address == <<"l", "1", "_", "a", "d", "d", "r", "e", "s", "s">>

\* get_account_index: the guard of line 64 lets the call through
get_account_index_accepts(l1_address) ==
    ~(~Truthy(l1_address) \/ ~IsStr(l1_address))

\* get_account_index(l1_address)
get_account_index(l1_address, outcome) ==
    IF ~get_account_index_accepts(l1_address)
    THEN Did(<<>>, Return(PyNone))
    ELSE CatchAPIError(
            MakeRequest(Urljoin(BASE_URL, "/api/v1/accountsByL1Address"),
                        PyDict([l1_address |-> l1_address]),
                        DEFAULT_TIMEOUT, outcome))

\* get_account: none of the three guards of lines 79-89 returns
get_account_accepts(by, value) ==
    /\ ~(~IsStr(by) \/ ~IsStr(value))
    /\ ~(by.s \notin {S_index, S_l1_address})
    /\ ~(Strip(value.s) = <<>>)

\* get_account(by, value)
get_account(by, value, outcome) ==
    IF ~get_account_accepts(by, value)
    THEN Did(<<>>, Return(PyNone))
    ELSE CatchAPIError(
            MakeRequest(Urljoin(BASE_URL, "/api/v1/account"),
                        PyDict([by |-> by, value |-> value]),
                        DEFAULT_TIMEOUT, outcome))

\* a get_orderbook_details that sends market_id whether or not it was given
get_orderbook_details_always_sends(market_id, outcome) ==
    CatchAPIError(
        MakeRequest(Urljoin(BASE_URL, "/api/v1/orderBookDetails"),
                    PyDict([market_id |-> market_id]), DEFAULT_TIMEOUT, outcome))

\* get_orderbook_details(market_id=None)
get_orderbook_details(market_id, outcome) ==
    LET params == IF Truthy(market_id) THEN [market_id |-> market_id] ELSE <<>>
    IN  CatchAPIError(
            MakeRequest(Urljoin(BASE_URL, "/api/v1/orderBookDetails"),
                        PyDict(params), DEFAULT_TIMEOUT, outcome))

CandlestickResolutions ==
    { <<"1", "m">>, <<"5", "m">>, <<"1", "5", "m">>, <<"3", "0", "m">>,
      <<"1", "h">>, <<"4", "h">>, <<"1", "2", "h">>, <<"1", "d">>, <<"1", "w">> }

FundingResolutions == { <<"1", "h">>, <<"1", "d">> }

\* resolution not in allowed_resolutions (a set of str)
NotInResolutions(resolution, allowed) ==
    ~(IsStr(resolution) /\ resolution.s \in allowed)

\* the three checks fetch_candlesticks and fetch_funding_rates make before the
\* request, in order: "reject" (return None), "TypeError" (the comparison of
\* line 130 / 171 raises) or "ok"
FetchChecks(market_id, resolution, start_timestamp, end_timestamp, count_back, allowed) ==
    IF ~(\A p \in {market_id, resolution, start_timestamp, end_timestamp, count_back} :
            IsStrOrInt(p))
    THEN "reject"
    ELSE IF PyGE(start_timestamp, end_timestamp) = "TypeError" THEN "TypeError"
    ELSE IF PyGE(start_timestamp, end_timestamp) = "True" THEN "reject"
    ELSE IF NotInResolutions(resolution, allowed) THEN "reject"
    ELSE "ok"

FetchParams(market_id, resolution, start_timestamp, end_timestamp, count_back) ==
    PyDict([market_id |-> market_id, resolution |-> resolution,
            start_timestamp |-> start_timestamp, end_timestamp |-> end_timestamp,
            count_back |-> count_back])

\* fetch_candlesticks(market_id, resolution, start_timestamp, end_timestamp, count_back)
fetch_candlesticks(market_id, resolution, start_timestamp, end_timestamp, count_back, outcome) ==
    LET c == FetchChecks(market_id, resolution, start_timestamp, end_timestamp,
                         count_back, CandlestickResolutions)
    IN  IF c = "reject" THEN Did(<<>>, Return(PyNone))
        ELSE IF c = "TypeError" THEN Did(<<>>, Raise("TypeError"))
        ELSE CatchAPIError(
                MakeRequest(Urljoin(BASE_URL, "/api/v1/candlesticks"),
                            FetchParams(market_id, resolution, start_timestamp,
                                        end_timestamp, count_back),
                            DEFAULT_TIMEOUT, outcome))

\* fetch_funding_rates(market_id, resolution, start_timestamp, end_timestamp, count_back)
fetch_funding_rates(market_id, resolution, start_timestamp, end_timestamp, count_back, outcome) ==
    LET c == FetchChecks(market_id, resolution, start_timestamp, end_timestamp,
                         count_back, FundingResolutions)
    IN  IF c = "reject" THEN Did(<<>>, Return(PyNone))
        ELSE IF c = "TypeError" THEN Did(<<>>, Raise("TypeError"))
        ELSE CatchAPIError(
                MakeRequest(Urljoin(BASE_URL, "/api/v1/fundings"),
                            FetchParams(market_id, resolution, start_timestamp,
                                        end_timestamp, count_back),
                            DEFAULT_TIMEOUT, outcome))

\* get_current_funding_rates()
get_current_funding_rates(outcome) ==
    CatchAPIError(
        MakeRequest(Urljoin(BASE_URL, "/api/v1/funding-rates"), PyNone,
                    DEFAULT_TIMEOUT, outcome))

(***************************************************************************)
(* Arguments the callers of the model pass.                                *)
(***************************************************************************)
StrChars == {" ", "\t", "x"}

RECURSIVE StringsUpTo(_)
StringsUpTo(n) ==
    IF n = 0 THEN {<<>>}
    ELSE LET shorter == StringsUpTo(n - 1)
         IN  shorter \cup {Append(s, c) : s \in shorter, c \in StrChars}

\* l1_address and value: every string over StrChars up to MaxStrLen, and
\* values of other types
TextInputs ==
    {PyStr(s) : s \in StringsUpTo(MaxStrLen)}
        \cup {PyNone, PyInt(0), PyInt(5), PyList(<<>>), PyList(<<PyStr(<<"x">>)>>)}

ByInputs ==
    {PyStr(S_index), PyStr(S_l1_address), PyStr(<<"i", "d">>), PyStr(<<>>),
     PyNone, PyInt(1)}

\* market_id of get_orderbook_details; PyNone is the call with no argument
OrderbookMarketInputs ==
    {PyNone, PyStr(<<>>), PyStr(<<"1">>), PyStr(<<" ">>), PyInt(0), PyInt(1)}

MarketInputs == {PyStr(<<"1">>), PyStr(<<>>), PyInt(1), PyNone}

ResolutionInputs ==
    {PyStr(r) : r \in CandlestickResolutions}
        \cup {PyStr(<<"2", "h">>), PyStr(<<"1", "D">>), PyStr(<<>>), PyInt(1), PyNone}

TimestampInputs ==
    {PyInt(n) : n \in 0..MaxTs}
        \cup {PyStr(<<"9">>), PyStr(<<"1", "0">>), PyFloat(1)}

CountBackInputs == {PyInt(10), PyStr(<<"1", "0">>), PyNone}

(***************************************************************************)
(* The facade as a state machine: one action per public function.  The     *)
(* functions share no state, so a behaviour is one call from the idle      *)
(* state; the state it leads to records what the call did.                 *)
(***************************************************************************)
Idle == fn = "none"

HealthCheck ==
    /\ Idle
    /\ \E o \in Outcomes :
        LET d == health_check(o)
        IN  /\ fn' = "health_check"
            /\ args' = <<>>
            /\ wire' = o
            /\ requests' = d.requests
            /\ ret' = d.res
            /\ UNCHANGED normVars

GetAccountIndex ==
    /\ Idle
    /\ \E l1 \in TextInputs, o \in Outcomes :
        LET d == get_account_index(l1, o)
        IN  /\ fn' = "get_account_index"
            /\ args' = <<l1>>
            /\ wire' = o
            /\ requests' = d.requests
            /\ ret' = d.res
            /\ UNCHANGED normVars

GetAccount ==
    /\ Idle
    /\ \E by \in ByInputs, value \in TextInputs, o \in Outcomes :
        LET d == get_account(by, value, o)
        IN  /\ fn' = "get_account"
            /\ args' = <<by, value>>
            /\ wire' = o
            /\ requests' = d.requests
            /\ ret' = d.res
            /\ UNCHANGED normVars

GetOrderbookDetails ==
    /\ Idle
    /\ \E m \in OrderbookMarketInputs, o \in Outcomes :
        LET d == get_orderbook_details(m, o)
        IN  /\ fn' = "get_orderbook_details"
            /\ args' = <<m>>
            /\ wire' = o
            /\ requests' = d.requests
            /\ ret' = d.res
            /\ UNCHANGED normVars

FetchCandlesticks ==
    /\ Idle
    /\ \E m \in MarketInputs, r \in ResolutionInputs, s \in TimestampInputs,
       e \in TimestampInputs, c \in CountBackInputs, o \in Outcomes :
        LET d == fetch_candlesticks(m, r, s, e, c, o)
        IN  /\ fn' = "fetch_candlesticks"
            /\ args' = <<m, r, s, e, c>>
            /\ wire' = o
            /\ requests' = d.requests
            /\ ret' = d.res
            /\ UNCHANGED normVars

FetchFundingRates ==
    /\ Idle
    /\ \E m \in MarketInputs, r \in ResolutionInputs, s \in TimestampInputs,
       e \in TimestampInputs, c \in CountBackInputs, o \in Outcomes :
        LET d == fetch_funding_rates(m, r, s, e, c, o)
        IN  /\ fn' = "fetch_funding_rates"
            /\ args' = <<m, r, s, e, c>>
            /\ wire' = o
            /\ requests' = d.requests
            /\ ret' = d.res
            /\ UNCHANGED normVars

GetCurrentFundingRates ==
    /\ Idle
    /\ \E o \in Outcomes :
        LET d == get_current_funding_rates(o)
        IN  /\ fn' = "get_current_funding_rates"
            /\ args' = <<>>
            /\ wire' = o
            /\ requests' = d.requests
            /\ ret' = d.res
            /\ UNCHANGED normVars

(***************************************************************************)
(* The timestamp normalizer (process.py).                                  *)
(***************************************************************************)
\* a DataFrame: its columns in order and each column's cells in row order
Frame(cols, data) == [columns |-> cols, data |-> data]

EmptyFrame == Frame(<<>>, <<>>)

\* column in df.columns
HasColumn(frame, name) == \E i \in 1..Len(frame.columns) : frame.columns[i] = name

NanosPerSecond == 1000000000
SecondsPerDay  == 86400

\* ticks of the unit in one second; 0 for a unit pandas does not know
TicksPerSecond(u) ==
    CASE u = "s"  -> 1
      [] u = "ms" -> 1000
      [] u = "us" -> 1000000
      [] u = "ns" -> NanosPerSecond
      [] OTHER    -> 0

\* a timezone-aware pandas Timestamp: an instant (seconds and nanoseconds
\* since 1970-01-01T00:00:00 UTC) and the UTC offset of its zone in seconds
Timestamp(sec, nsec, utcoffset) ==
    [t |-> "Timestamp", sec |-> sec, nsec |-> nsec, utcoffset |-> utcoffset]

\* pd.to_datetime(cell, unit=u, utc=True) of one cell
ToDatetimeUTC(cell, u) ==
    LET tps == TicksPerSecond(u)
    IN  Timestamp(cell.n \div tps, (cell.n % tps) * (NanosPerSecond \div tps), 0)

\* to_datetime raises ValueError for a cell that is no number or an unknown unit
Convertible(cell, u) == cell.t = "int" /\ TicksPerSecond(u) > 0

\* timezone(timedelta(hours=8)).utcoffset(None), in seconds
TzOffset == 8 * 3600

\* tz_localize in place of tz_convert: the UTC wall clock relabelled with the
\* zone, which is another instant
TzConvert_localizes(ts, utcoffset) == Timestamp(ts.sec - utcoffset, ts.nsec, utcoffset)

\* Series.dt.tz_convert(tz) of one cell: the same instant in another zone
TzConvert(ts, utcoffset) == Timestamp(ts.sec, ts.nsec, utcoffset)

\* year, month and day of the day `days` days after 1970-01-01 (proleptic
\* Gregorian calendar)
CivilFromDays(days) ==
    LET z   == days + 719468
        era == z \div 146097
        doe == z - era * 146097
        yoe == (doe - doe \div 1460 + doe \div 36524 - doe \div 146096) \div 365
        doy == doe - (365 * yoe + yoe \div 4 - yoe \div 100)
        mp  == (5 * doy + 2) \div 153
        d   == doy - (153 * mp + 2) \div 5 + 1
        m   == IF mp < 10 THEN mp + 3 ELSE mp - 9
        y   == yoe + era * 400 + (IF m <= 2 THEN 1 ELSE 0)
    IN  [year |-> y, month |-> m, day |-> d]

\* the wall-clock fields a Timestamp shows in its own zone
WallClock(ts) ==
    LET local == ts.sec + ts.utcoffset
        date  == CivilFromDays(local \div SecondsPerDay)
        sod   == local % SecondsPerDay
    IN  [year |-> date.year, month |-> date.month, day |-> date.day,
         hour |-> sod \div 3600, minute |-> (sod % 3600) \div 60,
         second |-> sod % 60, nanosecond |-> ts.nsec]

\* the new cells of the column, row by row
ConvertColumn(cells, u) ==
    [i \in 1..Len(cells) |-> TzConvert(ToDatetimeUTC(cells[i], u), TzOffset)]

RECURSIVE Without(_, _)
Without(cols, name) ==
    IF cols = <<>> THEN <<>>
    ELSE IF Head(cols) = name THEN Without(Tail(cols), name)
    ELSE <<Head(cols)>> \o Without(Tail(cols), name)

\* a convert_timestamp_column that drops the column and appends the converted
\* one, and raises KeyError when the column is absent
convert_timestamp_column_reinserts(frame, col, u) ==
    IF ~HasColumn(frame, col) THEN [df |-> frame, res |-> Raise("KeyError")]
    ELSE IF \E i \in 1..Len(frame.data[col]) : ~Convertible(frame.data[col][i], u)
         THEN [df |-> frame, res |-> Raise("ValueError")]
    ELSE LET after == Frame(Append(Without(frame.columns, col), col),
                            [frame.data EXCEPT ![col] = ConvertColumn(frame.data[col], u)])
         IN  [df |-> after, res |-> Return(after)]

\* convert_timestamp_column(df, column, unit): the frame afterwards (the
\* function assigns into the caller's frame and returns that same frame) and
\* how the call ended
convert_timestamp_column(frame, col, u) ==
    IF ~HasColumn(frame, col) THEN [df |-> frame, res |-> Return(frame)]
    ELSE IF \E i \in 1..Len(frame.data[col]) : ~Convertible(frame.data[col][i], u)
         THEN [df |-> frame, res |-> Raise("ValueError")]
    ELSE LET after == Frame(frame.columns,
                            [frame.data EXCEPT ![col] = ConvertColumn(frame.data[col], u)])
         IN  [df |-> after, res |-> Return(after)]

\* epoch ticks the callers put into a timestamp column
TickInputs == {-1, 0, 1, 57599, 57600, 1500000000}

TimestampCells == {PyInt(n) : n \in TickInputs} \cup {PyStr(<<"x">>)}
PriceCells     == {PyInt(100), PyStr(<<"x">>)}

Cells(n, C) == [1..n -> C]

FramesOfHeight(n) ==
    {EmptyFrame}
        \cup {Frame(<<"timestamp">>, [timestamp |-> ts]) : ts \in Cells(n, TimestampCells)}
        \cup {Frame(<<"price">>, [price |-> p]) : p \in Cells(n, PriceCells)}
        \cup {Frame(c, [timestamp |-> ts, price |-> p]) :
                c \in {<<"timestamp", "price">>, <<"price", "timestamp">>},
                ts \in Cells(n, TimestampCells), p \in Cells(n, PriceCells)}

Frames == UNION {FramesOfHeight(n) : n \in 0..MaxRows}

ColumnInputs == {"timestamp", "price", "volume"}
UnitInputs   == {"s", "ms", "ns"}

NoCall == [k |-> "none"]

ConvertTimestampColumn ==
    /\ out = NoCall
    /\ \E col \in ColumnInputs, u \in UnitInputs :
        LET r == convert_timestamp_column(df, col, u)
        IN  /\ df' = r.df
            /\ df_in' = df
            /\ column' = col
            /\ unit' = u
            /\ out' = r.res
            /\ UNCHANGED apiVars

NormIdle ==
    /\ df = EmptyFrame
    /\ df_in = EmptyFrame
    /\ column = ""
    /\ unit = ""
    /\ out = NoCall

ApiIdle ==
    /\ fn = "none"
    /\ args = <<>>
    /\ wire = Raises("ConnectionError")
    /\ requests = <<>>
    /\ ret = Return(PyNone)

\* the facade: no call made yet
Init == ApiIdle /\ NormIdle

Next ==
    \/ HealthCheck
    \/ GetAccountIndex
    \/ GetAccount
    \/ GetOrderbookDetails
    \/ FetchCandlesticks
    \/ FetchFundingRates
    \/ GetCurrentFundingRates

Spec == Init /\ [][Next]_vars

\* the normalizer: the caller holds some frame and has not called yet
InitNorm ==
    /\ ApiIdle
    /\ df \in Frames
    /\ df_in = df
    /\ column = ""
    /\ unit = ""
    /\ out = NoCall

NextNorm == ConvertTimestampColumn

SpecNorm == InitNorm /\ [][NextNorm]_vars

(***************************************************************************)
(* Vocabulary of the properties, stated from the contract and not through  *)
(* the guards of the functions above.                                      *)
(***************************************************************************)
Accessors ==
    {"get_account_index", "get_account", "get_orderbook_details",
     "fetch_candlesticks", "fetch_funding_rates", "get_current_funding_rates"}

FetchFunctions == {"fetch_candlesticks", "fetch_funding_rates"}

\* the resolution sets the contract names
ContractResolutions(f) ==
    IF f = "fetch_candlesticks"
    THEN { <<"1", "m">>, <<"5", "m">>, <<"1", "5", "m">>, <<"3", "0", "m">>,
           <<"1", "h">>, <<"4", "h">>, <<"1", "2", "h">>, <<"1", "d">>, <<"1", "w">> }
    ELSE { <<"1", "h">>, <<"1", "d">> }

\* a string that is empty or made of whitespace only
Blank(v) == IsStr(v) /\ \A i \in 1..Len(v.s) : v.s[i] \in {" ", "\t", "\n"}

ResolutionAllowed == IsStr(args[2]) /\ args[2].s \in ContractResolutions(fn)

\* start_timestamp >= end_timestamp, for two integers or two strings
StartNotBeforeEnd == PyGE(args[3], args[4]) = "True"

\* the last call was made with input its function's contract accepts
PassesValidation ==
    CASE fn = "get_account_index" -> IsStr(args[1]) /\ args[1].s # <<>>
      [] fn = "get_account" ->
            /\ IsStr(args[1]) /\ IsStr(args[2])
            /\ args[1].s \in {S_index, S_l1_address}
            /\ ~Blank(args[2])
      [] fn \in FetchFunctions ->
            /\ \A i \in 1..5 : args[i].t \in {"str", "int"}
            /\ PyGE(args[3], args[4]) = "False"
            /\ ResolutionAllowed
      [] OTHER -> TRUE

\* the input is invalid in one of the ways the contract lists: a wrong type,
\* an empty or whitespace-only string, a value outside the enumeration,
\* start_timestamp >= end_timestamp
InvalidInput ==
    CASE fn = "get_account_index" -> ~IsStr(args[1]) \/ Blank(args[1])
      [] fn = "get_account" ->
            \/ ~IsStr(args[1]) \/ ~IsStr(args[2])
            \/ args[1].s \notin {S_index, S_l1_address}
            \/ Blank(args[2])
      [] fn \in FetchFunctions ->
            \/ \E i \in 1..5 : args[i].t \notin {"str", "int"}
            \/ ~ResolutionAllowed
            \/ StartNotBeforeEnd
      [] OTHER -> FALSE

Status2xx == wire.exc = "none" /\ wire.status >= 200 /\ wire.status <= 299
Status4xx5xx == wire.exc = "none" /\ wire.status >= 400 /\ wire.status <= 599
TimedOut == wire.exc \in {"ReadTimeout", "ConnectTimeout"}
ConnectionFailed == wire.exc \in {"ConnectionError", "ConnectTimeout"}
MalformedJson == wire.exc = "none" /\ ~wire.body.ok

ReturnedNull == ret = Return(PyNone)

\* C1: for get_account_index, get_account, fetch_candlesticks and
\* fetch_funding_rates, every invalid input (wrong type, empty or
\* whitespace-only string, out-of-enum value, start >= end) returns null and
\* issues no request.
C1_InvalidInputNullNoRequest ==
    InvalidInput => ReturnedNull /\ requests = <<>>

\* C2: an accessor called with valid input, answered by a 2xx response whose
\* body parses as JSON, returns exactly the parsed body, whatever its shape.
C2_ReturnsParsedBody ==
    (fn \in Accessors /\ PassesValidation /\ Status2xx /\ wire.body.ok)
        => ret = Return(wire.body.val)

C2_Witness ==
    /\ fn = "get_account"
    /\ PassesValidation
    /\ wire = Response(201, JsonBody(PyList(<<PyInt(1), PyStr(<<"x">>)>>)))
    /\ ret = Return(PyList(<<PyInt(1), PyStr(<<"x">>)>>))

HealthRequest ==
    [method |-> "GET",
     url |-> [origin |-> "https://mainnet.zklighter.elliot.ai", path |-> ""],
     params |-> PyNone, headers |-> [accept |-> "application/json"], timeout |-> 5]

ForwardedRequest(path) ==
    [method |-> "GET",
     url |-> [origin |-> "https://mainnet.zklighter.elliot.ai", path |-> path],
     params |-> PyDict([market_id |-> args[1], resolution |-> args[2],
                        start_timestamp |-> args[3], end_timestamp |-> args[4],
                        count_back |-> args[5]]),
     headers |-> [accept |-> "application/json"], timeout |-> 10]

FetchPath ==
    IF fn = "fetch_candlesticks" THEN "/api/v1/candlesticks" ELSE "/api/v1/fundings"

\* start_timestamp == end_timestamp - 1, both integers
StartJustBeforeEnd ==
    args[3].t = "int" /\ args[4].t = "int" /\ args[3].n = args[4].n - 1

\* C5: for fetch_candlesticks and fetch_funding_rates, a resolution outside
\* the function's allowed set is rejected with null and no request;
\* start_timestamp == end_timestamp is rejected; start_timestamp ==
\* end_timestamp - 1 with an allowed resolution is accepted and one request
\* carries the five values unchanged under their five names.
C5_ResolutionAndBoundary ==
    fn \in FetchFunctions
        => /\ ~ResolutionAllowed => ReturnedNull /\ requests = <<>>
           /\ args[3] = args[4] => ReturnedNull /\ requests = <<>>
           /\ (StartJustBeforeEnd /\ ResolutionAllowed
                    /\ args[1].t \in {"str", "int"} /\ args[5].t \in {"str", "int"})
                => requests = <<ForwardedRequest(FetchPath)>>

\* C5 on the calls whose two timestamps are both integers or both strings:
\* there the three clauses hold.
C5_OnComparableTimestamps ==
    (fn \in FetchFunctions /\ (IsStr(args[3]) <=> IsStr(args[4])))
        => C5_ResolutionAndBoundary

\* C6: an accessor taking a market id, called with a non-empty string, puts
\* market_id, equal to that string, into every request it sends (and
\* get_orderbook_details always sends one); get_orderbook_details called with
\* no argument sends a parameter set that has no market_id key.
C6_MarketIdForwarded ==
    /\ (fn \in FetchFunctions \cup {"get_orderbook_details"}
            /\ IsStr(args[1]) /\ args[1].s # <<>>)
        => /\ \A i \in 1..Len(requests) :
                /\ requests[i].params.t = "dict"
                /\ "market_id" \in DOMAIN requests[i].params.d
                /\ requests[i].params.d["market_id"] = args[1]
           /\ fn = "get_orderbook_details" => Len(requests) = 1
    /\ (fn = "get_orderbook_details" /\ args[1] = PyNone)
        => /\ Len(requests) = 1
           /\ requests[1].params.t = "dict"
           /\ "market_id" \notin DOMAIN requests[1].params.d

C6_Witness ==
    /\ fn = "get_orderbook_details"
    /\ args = <<PyNone>>
    /\ Len(requests) = 1
    /\ requests[1].params = PyDict(<<>>)

\* C7: every call of an accessor or of health_check issues at most one GET
\* request, whatever the transport answers (no retry), and a call whose input
\* passes validation issues exactly one.
C7_AtMostOneRequest ==
    /\ Len(requests) <= 1
    /\ \A i \in 1..Len(requests) : requests[i].method = "GET"
    /\ (fn # "none" /\ PassesValidation) => Len(requests) = 1

C7_Witness ==
    /\ fn = "get_current_funding_rates"
    /\ wire = Raises("ReadTimeout")
    /\ Len(requests) = 1
    /\ ReturnedNull

\* C10: every call of fetch_candlesticks or fetch_funding_rates whose five
\* arguments are each a string or an integer, in any combination, ends by
\* returning a value (null or the parsed body) and never by raising.
C10_NeverRaises ==
    (fn \in FetchFunctions /\ \A i \in 1..5 : args[i].t \in {"str", "int"})
        => /\ ret.k = "return"
           /\ ret.v = PyNone \/ (wire.body.ok /\ ret.v = wire.body.val)

(***************************************************************************)
(* Properties of convert_timestamp_column, under SpecNorm.                 *)
(***************************************************************************)
Converted == out # NoCall /\ out.k = "return" /\ HasColumn(df_in, column)

\* C8: convert_timestamp_column leaves everything but the target column
\* untouched: with the column absent it returns, without error, a frame with
\* the columns and values of the input; with the column present the columns,
\* every other column's values and the number and order of rows are those of
\* the input.
C8_OnlyTargetColumnChanges ==
    out # NoCall
        => /\ ~HasColumn(df_in, column) => out = Return(df_in) /\ df = df_in
           /\ Converted
                => /\ out.v.columns = df_in.columns
                   /\ DOMAIN out.v.data = DOMAIN df_in.data
                   /\ \A c \in DOMAIN df_in.data \ {column} :
                        out.v.data[c] = df_in.data[c]
                   /\ Len(out.v.data[column]) = Len(df_in.data[column])
                   /\ df = out.v

C8_Witness ==
    /\ Converted
    /\ df_in.columns = <<"price", "timestamp">>
    /\ column = "timestamp"
    /\ Len(df_in.data["timestamp"]) = 2
    /\ df_in.data["timestamp"][1] # df_in.data["timestamp"][2]
    /\ out.v.data["price"] = <<PyInt(100), PyStr(<<"x">>)>>

\* ticks of the unit in one second, as the contract counts them
ContractTicksPerSecond ==
    CASE unit = "s" -> 1 [] unit = "ms" -> 1000 [] unit = "ns" -> 1000000000

\* the cell denotes the instant `ticks` ticks after 1970-01-01T00:00:00 UTC
SameInstant(cell, ticks) ==
    LET tps == ContractTicksPerSecond
        nanosPerTick == 1000000000 \div tps
    IN  /\ cell.nsec >= 0 /\ cell.nsec < 1000000000
        /\ cell.nsec % nanosPerTick = 0
        /\ cell.sec * tps + cell.nsec \div nanosPerTick = ticks

\* the cell is expressed at +8 hours: its wall clock is the UTC wall clock of
\* the instant eight hours later
AtPlusEight(cell) ==
    /\ cell.utcoffset = 8 * 3600
    /\ WallClock(cell) = WallClock(Timestamp(cell.sec + 8 * 3600, cell.nsec, 0))

\* C9: with the column present and holding integer epoch ticks in the given
\* unit, each tick t becomes the date-time of the instant t ticks after
\* 1970-01-01T00:00:00 UTC expressed at the constant offset +8 hours; the
\* column [0] with unit "s" becomes 1970-01-01T08:00:00+08:00.
C9_EpochToPlusEight ==
    Converted
        => /\ \A i \in 1..Len(df_in.data[column]) :
                /\ out.v.data[column][i].t = "Timestamp"
                /\ SameInstant(out.v.data[column][i], df_in.data[column][i].n)
                /\ AtPlusEight(out.v.data[column][i])
           /\ (df_in.data[column] = <<PyInt(0)>> /\ unit = "s")
                => /\ WallClock(out.v.data[column][1])
                        = [year |-> 1970, month |-> 1, day |-> 1, hour |-> 8,
                           minute |-> 0, second |-> 0, nanosecond |-> 0]
                   /\ out.v.data[column][1].utcoffset = 28800

C9_Witness ==
    /\ Converted
    /\ column = "timestamp"
    /\ unit = "s"
    /\ df_in.data["timestamp"] = <<PyInt(0)>>
    /\ out.v.data["timestamp"] = <<Timestamp(0, 0, 28800)>>

====
